---- MODULE Spec2Model ----
(***************************************************************************)
(* A model of src/API.py: the ReViews backend.  One state machine holds    *)
(* the signed-cookie session of every client, the wall clock, the review   *)
(* collection in insertion order, the inserts that a create_review handler *)
(* has handed to the database driver and is awaiting, and the last         *)
(* response sent.                                                          *)
(*                                                                         *)
(* Python values: an Optional value is a sequence of length <= 1, None is  *)
(* the empty sequence and Some(v) the one-element sequence.  A dict whose  *)
(* keys come and go (the session) is a function whose DOMAIN is the set of *)
(* keys present.  A datetime is an integer instant; its ISO-8601 text is a *)
(* record [iso |-> instant], so formatting and parsing are not the         *)
(* identity.  An ObjectId is a string of OidLen lower-case hex digits,     *)
(* modelled as a sequence of one-character strings.                        *)
(***************************************************************************)
EXTENDS Integers, Sequences, FiniteSets, TLC

VARIABLES session, now, db, pending, resp

vars == <<session, now, db, pending, resp>>

---------------------------------------------------------------------------
(* Bounds of the model *)

\* the wall clock runs over 0 .. MaxTime
MaxTime == 3
\* at most MaxReviews reviews are created (persisted or in flight)
MaxReviews == 2
\* at most MaxFiles files are sent with one form
MaxFiles == 1
\* number of hex digits of an identifier (24 in bson, scaled down)
OidLen == 2

Clients == {"c1", "c2"}

---------------------------------------------------------------------------
(* Python values *)

None == <<>>
Some(v) == <<v>>

\* bool(x) of an Optional string / dict: None and "" are false
Truthy(x) == x # None /\ x # Some("")

\* d.get(k)
Get(d, k) == IF k \in DOMAIN d THEN d[k] ELSE None

\* request.session after .clear(): no key at all
EmptySession == [k \in {} |-> None]

SessionKeys == {"user", "token", "token_iat", "token_exp"}

\* d[k] = v
SetKey(d, k, v) == [x \in (DOMAIN d) \cup {k} |-> IF x = k THEN v ELSE d[x]]

\* a timezone-aware datetime, and datetime.fromtimestamp(epoch, tz=utc)
fromtimestamp(epoch) == [utc |-> epoch]

\* datetime.isoformat() and datetime.fromisoformat()
isoformat(dt) == [iso |-> dt.utc]
fromisoformat(s) == [utc |-> s.iso]

\* datetime.now(timezone.utc)
utcnow(clock) == [utc |-> clock]

---------------------------------------------------------------------------
(* Utilities: src/API.py 51-89 *)

\* The session travels as JSON in the cookie, so a stored instant is text
\* (never a datetime); text that is not ISO-8601 raises ValueError -> None.
parse_session_datetime(value) ==
    IF value = None THEN None
    ELSE IF "iso" \in DOMAIN value[1] THEN Some(fromisoformat(value[1]))
    ELSE None

\* variant: the comparison written with > (the expiry instant still valid)
Expired_strict(token_exp, clock) ==
    token_exp # None /\ utcnow(clock).utc > token_exp[1].utc

\* token_exp and datetime.now(timezone.utc) >= token_exp
Expired(token_exp, clock) ==
    token_exp # None /\ utcnow(clock).utc >= token_exp[1].utc

\* returns the user (or None) and the session it leaves
get_session_user(sess, clock) ==
    LET token_exp == parse_session_datetime(Get(sess, "token_exp"))
    IN  IF Expired(token_exp, clock)
        THEN [ret |-> None, session |-> EmptySession]
        ELSE [ret |-> Get(sess, "user"), session |-> sess]

\* raises HTTPException(401) or returns the credential bundle
require_user(sess, clock) ==
    LET user == Get(sess, "user")
        token == Get(sess, "token")
        token_exp == parse_session_datetime(Get(sess, "token_exp"))
    IN  IF user = None \/ ~Truthy(token)
        THEN [ok |-> FALSE, status |-> 401, detail |-> "No autenticado",
              session |-> sess]
        ELSE IF Expired(token_exp, clock)
        THEN [ok |-> FALSE, status |-> 401, detail |-> "Token OAuth caducado",
              session |-> EmptySession]
        ELSE [ok |-> TRUE, status |-> 200, detail |-> "",
              session |-> sess,
              user |-> user[1],
              token |-> token,
              iat |-> parse_session_datetime(Get(sess, "token_iat")),
              exp |-> token_exp]

\* issued and expiry instants of the verified claims
parse_token_times(id_info) ==
    [issued  |-> IF id_info.iat # None
                 THEN Some(fromtimestamp(id_info.iat[1])) ELSE None,
     expires |-> IF id_info.exp # None
                 THEN Some(fromtimestamp(id_info.exp[1])) ELSE None]

---------------------------------------------------------------------------
(* Identity verifier (google.oauth2.id_token), an external collaborator *)

\* instant at which the dated credential expires
TokenExp == 2

GoodTokens == {"tokA", "tokB"}

\* the claims a credential carries: tokA is dated, tokB carries no dates
ClaimsOf(token) ==
    IF token = "tokA"
    THEN [sub |-> Some("g-ann"), email |-> Some("ann@example.org"),
          name |-> Some("Ann"), picture |-> Some("ann.png"),
          iat |-> Some(0), exp |-> Some(TokenExp)]
    ELSE [sub |-> Some("g-bob"), email |-> Some("bob@example.org"),
          name |-> None, picture |-> None,
          iat |-> None, exp |-> None]

\* verify_oauth2_token either raises or returns the claims; a credential
\* that is not a good one always raises, a good one may still raise
VerifyOutcomes(token) ==
    IF token[1] \in GoodTokens THEN {"ok", "raise"} ELSE {"raise"}

\* JSON bodies of POST /login
LoginBodies ==
    { [k \in {} |-> None] } \cup
    { [k \in {"token"} |-> t] :
        t \in {None, Some(""), Some("bad"), Some("tokA"), Some("tokB")} }

---------------------------------------------------------------------------
(* POST /login, GET /logout, GET / : src/API.py 155-198 *)

\* variant: the assignment of line 178 left out
establish_no_token(sess, token, id_info) ==
    LET times == parse_token_times(id_info)
        user_info == [google_id |-> id_info.sub, email |-> id_info.email,
                      name |-> id_info.name, picture |-> id_info.picture]
        s1 == SetKey(sess, "user", Some(user_info))
        s3 == SetKey(s1, "token_iat",
                     IF times.issued # None
                     THEN Some(isoformat(times.issued[1])) ELSE None)
        s4 == SetKey(s3, "token_exp",
                     IF times.expires # None
                     THEN Some(isoformat(times.expires[1])) ELSE None)
    IN  s4

\* lines 170-180: the four assignments to request.session
establish(sess, token, id_info) ==
    LET times == parse_token_times(id_info)
        user_info == [google_id |-> id_info.sub, email |-> id_info.email,
                      name |-> id_info.name, picture |-> id_info.picture]
        s1 == SetKey(sess, "user", Some(user_info))
        s2 == SetKey(s1, "token", token)
        s3 == SetKey(s2, "token_iat",
                     IF times.issued # None
                     THEN Some(isoformat(times.issued[1])) ELSE None)
        s4 == SetKey(s3, "token_exp",
                     IF times.expires # None
                     THEN Some(isoformat(times.expires[1])) ELSE None)
    IN  s4

\* variant: a login that fails drops the session it found
login_clears_on_failure(sess, data, outcome) ==
    LET token == Get(data, "token")
    IN  IF ~Truthy(token)
        THEN [session |-> sess, status |-> 400, detail |-> "Token requerido"]
        ELSE IF outcome = "raise"
        THEN [session |-> EmptySession, status |-> 401,
              detail |-> "Token invalido"]
        ELSE [session |-> establish(sess, token, ClaimsOf(token[1])),
              status |-> 303, detail |-> "/reviews"]

login(sess, data, outcome) ==
    LET token == Get(data, "token")
    IN  IF ~Truthy(token)
        THEN [session |-> sess, status |-> 400, detail |-> "Token requerido"]
        ELSE IF outcome = "raise"
        THEN [session |-> sess, status |-> 401, detail |-> "Token invalido"]
        ELSE [session |-> establish(sess, token, ClaimsOf(token[1])),
              status |-> 303, detail |-> "/reviews"]

\* variant: only the user is removed (session.pop("user", None))
logout_pops_user(sess) ==
    [session |-> [k \in (DOMAIN sess) \ {"user"} |-> sess[k]],
     status |-> 303, detail |-> "/"]

logout(sess) ==
    [session |-> EmptySession, status |-> 303, detail |-> "/"]

home(sess, clock) ==
    LET r == get_session_user(sess, clock)
    IN  IF r.ret # None
        THEN [session |-> r.session, status |-> 303, detail |-> "/reviews"]
        ELSE [session |-> r.session, status |-> 200, detail |-> "index.html"]

Login(c, data, outcome) ==
    LET r == login(session[c], data, outcome)
    IN  /\ session' = [session EXCEPT ![c] = r.session]
        /\ resp' = [op |-> "login", client |-> c, status |-> r.status,
                    detail |-> r.detail, data |-> data]
        /\ UNCHANGED <<now, db, pending>>

Logout(c) ==
    LET r == logout(session[c])
    IN  /\ session' = [session EXCEPT ![c] = r.session]
        /\ resp' = [op |-> "logout", client |-> c, status |-> r.status,
                    detail |-> r.detail]
        /\ UNCHANGED <<now, db, pending>>

Home(c) ==
    LET r == home(session[c], now)
    IN  /\ session' = [session EXCEPT ![c] = r.session]
        /\ resp' = [op |-> "home", client |-> c, status |-> r.status,
                    detail |-> r.detail]
        /\ UNCHANGED <<now, db, pending>>

---------------------------------------------------------------------------
(* Identifiers: bson.ObjectId *)

HexLower == <<"a", "b">>

IsHex(ch) == ch \in {"a", "b", "A", "B"}
Lower(ch) == IF ch = "A" THEN "a" ELSE IF ch = "B" THEN "b" ELSE ch
Upper(ch) == IF ch = "a" THEN "A" ELSE IF ch = "b" THEN "B" ELSE ch

\* ObjectId(text) raises InvalidId unless text is OidLen hex digits
ObjectIdValid(text) ==
    Len(text) = OidLen /\ \A i \in 1..Len(text) : IsHex(text[i])

\* the identifier parsed from a valid text, and its text str(oid)
ObjectId(text) == [i \in 1..Len(text) |-> Lower(text[i])]
OidStr(oid) == oid

\* 2^n
RECURSIVE Pow2(_)
Pow2(n) == IF n = 0 THEN 1 ELSE 2 * Pow2(n - 1)

\* the n-th identifier the driver generates (all distinct)
NthOid(n) ==
    [i \in 1..OidLen |-> HexLower[((n \div Pow2(OidLen - i)) % 2) + 1]]

\* The texts a client sends as an identifier: every identifier the driver
\* can have generated, as it is, in upper case, cut short by a digit, and
\* with a character that is no hex digit
TextsOf(oid) ==
    { oid,
      [i \in 1..Len(oid) |-> Upper(oid[i])],
      SubSeq(oid, 1, Len(oid) - 1),
      [i \in 1..Len(oid) |-> IF i = 1 THEN "z" ELSE oid[i]] }

IdStrings == UNION { TextsOf(NthOid(n)) : n \in 0..MaxReviews }

---------------------------------------------------------------------------
(* Geocoder client: src/API.py 92-103 *)

\* float(text)
float(x) == x.text

\* what the lookup service can answer: a transport or HTTP error, an empty
\* result list, or one result
GeoResponses ==
    { [error |-> TRUE, data |-> <<>>],
      [error |-> FALSE, data |-> <<>>],
      [error |-> FALSE,
       data |-> << [lat |-> [text |-> 0], lon |-> [text |-> -4]] >>] }

\* the (lat, lon) pair of Optionals, unless requests raised
geocode_address(address, response) ==
    IF response.error
    THEN [raised |-> TRUE, lat |-> None, lon |-> None]
    ELSE IF response.data = <<>>
    THEN [raised |-> FALSE, lat |-> None, lon |-> None]
    ELSE [raised |-> FALSE,
          lat |-> Some(float(response.data[1].lat)),
          lon |-> Some(float(response.data[1].lon))]

---------------------------------------------------------------------------
(* Media uploader: src/API.py 136-152 *)

\* an UploadFile: its filename and the length of its content
BlankField == [filename |-> "", size |-> 0]
EmptyNamed == [filename |-> "a.png", size |-> 0]
PhotoA == [filename |-> "a.png", size |-> 1]
PhotoB == [filename |-> "b.png", size |-> 1]

\* an entry of the form's file list: None or an UploadFile
Files == {None, Some(BlankField), Some(EmptyNamed), Some(PhotoA), Some(PhotoB)}

\* what a form can carry as `images`: no field, or up to MaxFiles entries
FileLists ==
    {None} \cup { Some(l) : l \in UNION { [1..n -> Files] : n \in 0..MaxFiles } }

\* what cloudinary.uploader.upload can do with one file: raise, answer with
\* a secure_url, or answer without one
CloudOutcomes == {"raise", "url", "nourl"}

SecureUrl(file) == [https |-> file.filename]

\* the host's answer for a file
CloudResult(file, outcome) ==
    IF outcome = "url" THEN [secure_url |-> Some(SecureUrl(file))]
    ELSE [secure_url |-> None]

\* line 142: not file or not file.filename
Skips(file) == file = None \/ file[1].filename = ""

\* the loop of lines 141-151 from entry i on; acc holds the URLs collected
\* and the files handed to the host so far
RECURSIVE UploadLoop(_, _, _, _)
UploadLoop(files, outcomes, i, acc) ==
    IF i > Len(files) THEN acc
    ELSE LET file == files[i]
         IN  IF Skips(file)
             THEN UploadLoop(files, outcomes, i + 1, acc)
             ELSE IF outcomes[i] = "raise"
             THEN [acc EXCEPT !.raised = TRUE,
                              !.uploaded = Append(@, file[1])]
             ELSE LET secure_url == CloudResult(file[1], outcomes[i]).secure_url
                  IN  UploadLoop(files, outcomes, i + 1,
                        [acc EXCEPT
                           !.uploaded = Append(@, file[1]),
                           !.urls = IF secure_url # None
                                    THEN Append(@, secure_url[1]) ELSE @])

\* [raised, urls, uploaded]: the URLs returned unless an upload raised, and
\* the files that were handed to the host
upload_images(files, outcomes) ==
    IF files = None \/ files[1] = <<>>
    THEN [raised |-> FALSE, urls |-> <<>>, uploaded |-> <<>>]
    ELSE UploadLoop(files[1], outcomes, 1,
                    [raised |-> FALSE, urls |-> <<>>, uploaded |-> <<>>])

\* the host's behaviour for each entry of a file list
OutcomesFor(files) ==
    IF files = None THEN { <<>> }
    ELSE { o \in [1..Len(files[1]) -> CloudOutcomes] :
             \A i \in 1..Len(files[1]) : Skips(files[1][i]) => o[i] = "url" }

---------------------------------------------------------------------------
(* Review repository and serialisation: src/API.py 106-121, 208, 267 *)

serialize_review(doc) ==
    [id |-> OidStr(doc._id),
     name |-> doc.name,
     address |-> doc.address,
     latitude |-> doc.latitude,
     longitude |-> doc.longitude,
     rating |-> doc.rating,
     author_email |-> doc.author_email,
     author_name |-> doc.author_name,
     token |-> doc.token,
     token_issued_at |-> doc.token_issued_at,
     token_expires_at |-> doc.token_expires_at,
     images |-> doc.images,
     created_at |-> doc.created_at]

\* the orders find().sort("created_at", -1) can return the collection in
SortedByCreatedDesc(coll) ==
    { [i \in 1..Len(coll) |-> coll[p[i]]] :
        p \in { q \in [1..Len(coll) -> 1..Len(coll)] :
                  /\ \A i, j \in 1..Len(coll) : i # j => q[i] # q[j]
                  /\ \A i, j \in 1..Len(coll) :
                       i < j => coll[q[i]].created_at.utc >= coll[q[j]].created_at.utc } }

\* find_one({"_id": oid}): None or the document
find_one(coll, oid) ==
    IF \E i \in 1..Len(coll) : coll[i]._id = oid
    THEN Some(coll[CHOOSE i \in 1..Len(coll) : coll[i]._id = oid])
    ELSE None

\* variant: the write replaces the collection's newest document
insert_one_replaces(coll, doc) ==
    IF coll = <<>> THEN << SetKey(doc, "_id", NthOid(0)) >>
    ELSE [coll EXCEPT ![Len(coll)] = SetKey(doc, "_id", NthOid(Len(coll)))]

\* insert_one: the driver gives the document its _id, the server appends it
insert_one(coll, doc) ==
    Append(coll, SetKey(doc, "_id", NthOid(Len(coll))))

---------------------------------------------------------------------------
(* GET /reviews, POST /reviews, GET /reviews/{id} : src/API.py 201-283 *)

\* next((r for r in reviews if r["id"] == selected), None)
FirstWithId(reviews, text) ==
    IF \E i \in 1..Len(reviews) : reviews[i].id = text
    THEN Some(reviews[CHOOSE i \in 1..Len(reviews) :
                        /\ reviews[i].id = text
                        /\ \A j \in 1..(i - 1) : reviews[j].id # text])
    ELSE None

\* lines 212-221: the pre-selection, which swallows an invalid identifier
select_review(coll, reviews, selected) ==
    IF selected = None \/ selected[1] = <<>> THEN None
    ELSE LET hit == FirstWithId(reviews, selected[1])
         IN  IF hit # None THEN hit
             ELSE IF ~ObjectIdValid(selected[1]) THEN None
             ELSE LET db_review == find_one(coll, ObjectId(selected[1]))
                  IN  IF db_review # None
                      THEN Some(serialize_review(db_review[1])) ELSE None

\* `sorted` is the cursor's answer, one of SortedByCreatedDesc(coll)
list_reviews(sess, clock, coll, sorted, selected) ==
    LET auth == require_user(sess, clock)
    IN  IF ~auth.ok
        THEN [session |-> auth.session, status |-> auth.status,
              detail |-> auth.detail]
        ELSE LET reviews == [i \in 1..Len(sorted) |-> serialize_review(sorted[i])]
             IN  [session |-> auth.session, status |-> 200,
                  detail |-> "mapa.html",
                  reviews |-> reviews,
                  selected_review |-> select_review(coll, reviews, selected)]

MinRating == 0
MaxRating == 5

\* variant: the upper limit is not checked
RatingOk_no_upper(rating) == ~(rating < MinRating)

\* lines 242-243
RatingOk(rating) == ~(rating < MinRating \/ rating > MaxRating)

\* variant: the answer of the geocoder is not checked
GeocodeFailed_unchecked(coords) == FALSE

\* lines 247-248
GeocodeFailed(coords) == coords.lat = None \/ coords.lon = None

\* lines 252-265: the document handed to insert_one
review_doc(name, address, coords, rating, auth, uploaded_urls, clock) ==
    [name |-> name,
     address |-> address,
     latitude |-> coords.lat,
     longitude |-> coords.lon,
     rating |-> rating,
     author_email |-> auth.user.email,
     author_name |-> auth.user.name,
     token |-> auth.token,
     token_issued_at |-> auth.iat,
     token_expires_at |-> auth.exp,
     images |-> uploaded_urls,
     created_at |-> utcnow(clock)]

\* The handler up to its only await (line 267).  It ends with a response, or
\* with a document handed to the driver (status 0: no response yet).
\* calls records the outbound calls it made: what the geocoder answered and
\* the files handed to the media host.
create_review(sess, clock, name, address, rating, files, georesp, outcomes) ==
    LET auth == require_user(sess, clock)
        coords == geocode_address(address, georesp)
        up == upload_images(files, outcomes)
        nocalls == [geo |-> "not asked", uploaded |-> <<>>]
    IN  IF ~auth.ok
        THEN [session |-> auth.session, status |-> auth.status,
              detail |-> auth.detail, calls |-> nocalls]
        ELSE IF ~RatingOk(rating)
        THEN [session |-> auth.session, status |-> 400,
              detail |-> "La valoracion debe estar entre 0 y 5",
              calls |-> nocalls]
        ELSE IF coords.raised
        THEN [session |-> auth.session, status |-> 500,
              detail |-> "geocoder error",
              calls |-> [geo |-> "error", uploaded |-> <<>>]]
        ELSE IF GeocodeFailed(coords)
        THEN [session |-> auth.session, status |-> 400,
              detail |-> "No se pudo geocodificar la direccion",
              calls |-> [geo |-> "no result", uploaded |-> <<>>]]
        ELSE IF up.raised
        THEN [session |-> auth.session, status |-> 500,
              detail |-> "upload error",
              calls |-> [geo |-> "result", uploaded |-> up.uploaded]]
        ELSE [session |-> auth.session, status |-> 0,
              detail |-> "awaiting insert_one",
              calls |-> [geo |-> "result", uploaded |-> up.uploaded],
              doc |-> review_doc(name, address, coords, rating, auth,
                                 up.urls, clock)]

\* variant: an identifier that does not parse is reported as not found
get_review_invalid_is_404(sess, clock, coll, review_id) ==
    LET auth == require_user(sess, clock)
    IN  IF ~auth.ok
        THEN [session |-> auth.session, status |-> auth.status,
              detail |-> auth.detail]
        ELSE IF ~ObjectIdValid(review_id)
        THEN [session |-> auth.session, status |-> 404,
              detail |-> "Resena no encontrada"]
        ELSE LET db_review == find_one(coll, ObjectId(review_id))
             IN  IF db_review = None
                 THEN [session |-> auth.session, status |-> 404,
                       detail |-> "Resena no encontrada"]
                 ELSE [session |-> auth.session, status |-> 200,
                       detail |-> "json",
                       body |-> serialize_review(db_review[1])]

get_review(sess, clock, coll, review_id) ==
    LET auth == require_user(sess, clock)
    IN  IF ~auth.ok
        THEN [session |-> auth.session, status |-> auth.status,
              detail |-> auth.detail]
        ELSE IF ~ObjectIdValid(review_id)
        THEN [session |-> auth.session, status |-> 400,
              detail |-> "Identificador invalido"]
        ELSE LET db_review == find_one(coll, ObjectId(review_id))
             IN  IF db_review = None
                 THEN [session |-> auth.session, status |-> 404,
                       detail |-> "Resena no encontrada"]
                 ELSE [session |-> auth.session, status |-> 200,
                       detail |-> "json",
                       body |-> serialize_review(db_review[1])]

Names == {"Cafe X"}
Addresses == {"123 Main St"}
Ratings == {MinRating - 1, MinRating, MaxRating, MaxRating + 1}

ListReviews(c, selected, sorted) ==
    LET r == list_reviews(session[c], now, db, sorted, selected)
    IN  /\ session' = [session EXCEPT ![c] = r.session]
        /\ resp' = [op |-> "list", client |-> c, status |-> r.status,
                    detail |-> r.detail, selected |-> selected,
                    reviews |-> IF r.status = 200 THEN r.reviews ELSE <<>>,
                    selected_review |->
                        IF r.status = 200 THEN r.selected_review ELSE None]
        /\ UNCHANGED <<now, db, pending>>

\* POST /reviews up to the await: a response, or an insert in flight (the
\* clock has moved on by the time the next handler reads it)
CreateReview(c, name, address, rating, files, georesp, outcomes) ==
    LET r == create_review(session[c], now, name, address, rating,
                           files, georesp, outcomes)
    IN  /\ session' = [session EXCEPT ![c] = r.session]
        /\ IF r.status # 0
           THEN /\ resp' = [op |-> "create", client |-> c,
                            status |-> r.status, detail |-> r.detail,
                            id |-> None, calls |-> r.calls]
                /\ UNCHANGED <<now, db, pending>>
           ELSE /\ Len(db) + Cardinality(pending) < MaxReviews
                /\ now < MaxTime
                /\ now' = now + 1
                /\ pending' = pending \cup
                                 {[client |-> c, doc |-> r.doc, calls |-> r.calls]}
                /\ UNCHANGED <<db, resp>>

\* The database performs an awaited insert (in any order: the driver runs
\* each insert_one on a worker thread) and the handler resumes, lines 267-270
DbInsert(p) ==
    LET coll == insert_one(db, p.doc)
    IN  /\ db' = coll
        /\ pending' = pending \ {p}
        /\ resp' = [op |-> "create", client |-> p.client, status |-> 303,
                    detail |-> "/reviews?selected=",
                    id |-> Some(OidStr(coll[Len(coll)]._id)),
                    calls |-> p.calls]
        /\ UNCHANGED <<session, now>>

GetReview(c, review_id) ==
    LET r == get_review(session[c], now, db, review_id)
    IN  /\ session' = [session EXCEPT ![c] = r.session]
        /\ resp' = [op |-> "get", client |-> c, status |-> r.status,
                    detail |-> r.detail, review_id |-> review_id,
                    body |-> IF r.status = 200 THEN Some(r.body) ELSE None]
        /\ UNCHANGED <<now, db, pending>>

\* the wall clock advances
Tick ==
    /\ now < MaxTime
    /\ now' = now + 1
    /\ UNCHANGED <<session, db, pending, resp>>

---------------------------------------------------------------------------
Init ==
    /\ session = [c \in Clients |-> EmptySession]
    /\ now = 0
    /\ db = <<>>
    /\ pending = {}
    /\ resp = [op |-> "none", client |-> "none", status |-> 0]

\* The inputs a handler reads.  An input the handler returns before reading
\* (the geocoder's answer to a request that is refused, the media host's
\* answer for a form whose address has no coordinates) is not enumerated.
ReadsGeocoder(c, rating) ==
    require_user(session[c], now).ok /\ RatingOk(rating)

GeoFor(c, rating, georesps) ==
    IF ReadsGeocoder(c, rating) THEN georesps
    ELSE { [error |-> TRUE, data |-> <<>>] }

FilesFor(c, rating, georesp, filelists) ==
    IF /\ ReadsGeocoder(c, rating)
       /\ ~georesp.error
       /\ ~GeocodeFailed(geocode_address("", georesp))
    THEN filelists ELSE {None}

OutcomesOf(data) ==
    IF Truthy(Get(data, "token")) THEN VerifyOutcomes(Get(data, "token"))
    ELSE {"raise"}

\* the `selected` query parameter: absent, empty, or an identifier text
Selections(ids) == {None, Some(<<>>)} \cup { Some(t) : t \in ids }

\* A client sends its requests one after the other: it has no request in
\* flight when it sends the next.  Requests of different clients overlap.
Idle(clients) == { c \in clients : \A p \in pending : p.client # c }

\* one request of a client, its inputs drawn from the given sets
Requests(clients, bodies, ids, ratings, georesps, filelists) ==
    \/ \E c \in Idle(clients), data \in bodies :
         \E outcome \in OutcomesOf(data) : Login(c, data, outcome)
    \/ \E c \in Idle(clients) : Logout(c)
    \/ \E c \in Idle(clients) : Home(c)
    \/ \E c \in Idle(clients), selected \in Selections(ids) :
         \E sorted \in SortedByCreatedDesc(db) :
           ListReviews(c, selected, sorted)
    \/ \E c \in Idle(clients), name \in Names, address \in Addresses,
          rating \in ratings :
         \E georesp \in GeoFor(c, rating, georesps) :
           \E files \in FilesFor(c, rating, georesp, filelists) :
             \E outcomes \in OutcomesFor(files) :
               CreateReview(c, name, address, rating, files, georesp, outcomes)
    \/ \E p \in pending : DbInsert(p)
    \/ \E c \in Idle(clients), review_id \in ids \ { <<>> } :
         GetReview(c, review_id)

GeoHit == [error |-> FALSE,
           data |-> << [lat |-> [text |-> 0], lon |-> [text |-> -4]] >>]

\* Sessions over time: one client, every login body, the forms that are
\* accepted
Next ==
    \/ Requests({"c1"}, LoginBodies, TextsOf(NthOid(0)), {MaxRating},
                {GeoHit}, {None})
    \/ Tick

Spec == Init /\ [][Next]_vars

\* one undated credential
ReviewBodies == { [k \in {"token"} |-> Some("tokB")] }

\* Reviews: every rating and every answer of the geocoder, a form with or
\* without a photo
NextReviews ==
    Requests({"c1"}, ReviewBodies, TextsOf(NthOid(0)), Ratings, GeoResponses,
             {None, Some(<<Some(PhotoA)>>)})

SpecReviews == Init /\ [][NextReviews]_vars

\* Lookups: every identifier text
NextLookup ==
    Requests({"c1"}, ReviewBodies, IdStrings, {MaxRating}, {GeoHit}, {None})

SpecLookup == Init /\ [][NextLookup]_vars

\* Uploads: every file list
NextUpload ==
    Requests({"c1"}, ReviewBodies, TextsOf(NthOid(0)), {MaxRating}, {GeoHit},
             FileLists)

SpecUpload == Init /\ [][NextUpload]_vars

\* Two clients whose requests overlap
NextConcurrent ==
    Requests(Clients, ReviewBodies, TextsOf(NthOid(0)), {MaxRating}, {GeoHit},
             {None})

SpecConcurrent == Init /\ [][NextConcurrent]_vars

---------------------------------------------------------------------------
(* What the specification calls a valid session, read off the stored fields *)

StoredExpiry(sess) == Get(sess, "token_exp")

\* the stored expiry is at or before the clock
HasExpired(sess, clock) ==
    StoredExpiry(sess) # None /\ StoredExpiry(sess)[1].iso <= clock

\* a user and a token are stored and the expiry is absent or in the future
ValidSession(sess, clock) ==
    /\ Get(sess, "user") # None
    /\ Get(sess, "token") \notin {None, Some("")}
    /\ ~HasExpired(sess, clock)

\* a step is a POST /reviews of client c with a form of the given sets
\* that satisfies Then(rating, files, georesp, outcomes)
CreateSteps(c, ratings, georesps, filelists, Then(_, _, _, _)) ==
    (resp'.op = "create" \/ pending' # pending) =>
      \A name \in Names, address \in Addresses, rating \in ratings,
         georesp \in georesps, files \in filelists :
        \A outcomes \in OutcomesFor(files) :
          CreateReview(c, name, address, rating, files, georesp, outcomes)
            => Then(rating, files, georesp, outcomes)

---------------------------------------------------------------------------
(* C1 *)

\* C1: a GET /reviews, whatever its `selected` parameter, answers 401 when
\* the client has no valid session; a session becomes valid only by a
\* successful POST /login; GET /logout leaves no session field behind.
C1_ListNeedsSession ==
    [][ \A c \in Clients :
          /\ \A selected \in Selections(IdStrings) :
               \A sorted \in SortedByCreatedDesc(db) :
                 (ListReviews(c, selected, sorted)
                    /\ ~ValidSession(session[c], now))
                 => resp'.status = 401
          /\ (~ValidSession(session[c], now) /\ ValidSession(session'[c], now'))
             => \E data \in LoginBodies :
                  Login(c, data, "ok") /\ resp'.status = 303
          /\ Logout(c) => (DOMAIN session'[c]) \cap SessionKeys = {}
      ]_vars

\* a review exists (so the client was logged in), the session is gone, and
\* the list asked with a `selected` parameter was refused
C1_Witness ==
    /\ resp.op = "list" /\ resp.status = 401 /\ resp.selected # None
    /\ Len(db) > 0
    /\ DOMAIN session[resp.client] = {}

---------------------------------------------------------------------------
(* C2 *)

\* C2: with a stored expiry at or before the clock, GET / finds no user and
\* the endpoints that require a user answer 401, and the session is
\* cleared; with an expiry absent or ahead, the session is left as it is
\* and a valid session is admitted.
C2_ExpiredIsNoSession ==
    [][ \A c \in Clients :
          /\ Home(c) =>
               IF HasExpired(session[c], now)
               THEN resp'.status = 200 /\ session'[c] = EmptySession
               ELSE /\ session'[c] = session[c]
                    /\ (resp'.status = 303) <=> (Get(session[c], "user") # None)
          /\ \A selected \in Selections(IdStrings) :
               \A sorted \in SortedByCreatedDesc(db) :
                 ListReviews(c, selected, sorted) =>
                   IF HasExpired(session[c], now)
                   THEN resp'.status = 401 /\ session'[c] = EmptySession
                   ELSE /\ session'[c] = session[c]
                        /\ ValidSession(session[c], now) => resp'.status = 200
          /\ \A review_id \in IdStrings :
               GetReview(c, review_id) =>
                 IF HasExpired(session[c], now)
                 THEN resp'.status = 401 /\ session'[c] = EmptySession
                 ELSE /\ session'[c] = session[c]
                      /\ ValidSession(session[c], now) => resp'.status # 401
          /\ LET Then(rating, files, georesp, outcomes) ==
                     IF HasExpired(session[c], now)
                     THEN /\ resp'.status = 401 /\ session'[c] = EmptySession
                          /\ UNCHANGED <<db, pending>>
                     ELSE session'[c] = session[c]
             IN  CreateSteps(c, {MaxRating}, {GeoHit}, {None}, Then)
      ]_vars

\* the expiry was detected at the very instant of the expiry
C2_Witness ==
    /\ resp.status = 401 /\ resp.detail = "Token OAuth caducado"
    /\ now = TokenExp
    /\ session[resp.client] = EmptySession

---------------------------------------------------------------------------
(* C9 *)

\* the session a successful login with this credential must leave
SessionFor(token, claims) ==
    [k \in SessionKeys |->
       IF k = "user"
       THEN Some([google_id |-> claims.sub, email |-> claims.email,
                  name |-> claims.name, picture |-> claims.picture])
       ELSE IF k = "token" THEN token
       ELSE IF k = "token_iat"
       THEN (IF claims.iat = None THEN None ELSE Some([iso |-> claims.iat[1]]))
       ELSE (IF claims.exp = None THEN None ELSE Some([iso |-> claims.exp[1]]))]

\* C9: POST /login answers 400 without a token and 401 when the token does
\* not verify, leaving the session as it was; when the token verifies the
\* four session fields hold the new credential and the answer is a 303 to
\* /reviews.
C9_LoginOutcomes ==
    [][ \A c \in Clients, data \in LoginBodies :
          \A outcome \in OutcomesOf(data) :
            Login(c, data, outcome) =>
              IF Get(data, "token") \in {None, Some("")}
              THEN resp'.status = 400 /\ session' = session
              ELSE IF outcome = "raise"
              THEN resp'.status = 401 /\ session' = session
              ELSE /\ resp'.status = 303 /\ resp'.detail = "/reviews"
                   /\ session'[c] = SessionFor(data.token, ClaimsOf(data.token[1]))
      ]_vars

\* a login was refused with 401 and the session in place is still valid
C9_Witness ==
    /\ resp.op = "login" /\ resp.status = 401
    /\ ValidSession(session[resp.client], now)

---------------------------------------------------------------------------
(* C10 *)

\* C10: a session is empty or holds a user and a non-empty token, so
\* get_session_user finds a user exactly when require_user succeeds, and
\* GET / redirects only when GET /reviews would not answer 401.
C10_UserIffToken ==
    \A c \in Clients :
      /\ \/ DOMAIN session[c] = {}
         \/ /\ Get(session[c], "user") # None
            /\ Get(session[c], "token") \notin {None, Some("")}
      /\ (get_session_user(session[c], now).ret # None)
           <=> require_user(session[c], now).ok
      /\ home(session[c], now).status = 303
           => \A selected \in Selections(IdStrings) :
                \A sorted \in SortedByCreatedDesc(db) :
                  list_reviews(session[c], now, db, sorted, selected).status # 401

\* GET / has redirected a client whose session holds a user and a token
C10_Witness ==
    /\ resp.op = "home" /\ resp.status = 303
    /\ Get(session[resp.client], "token") # None
    /\ get_session_user(session[resp.client], now).ret # None

---------------------------------------------------------------------------
(* C3 *)

HasCoordinates(doc) == doc.latitude # None /\ doc.longitude # None

\* the geocoder answers with an empty result list
NoResult == [error |-> FALSE, data |-> <<>>]

PhotoForms == {None, Some(<<Some(PhotoA)>>)}

\* C3: every review persisted, or handed to the database, has a latitude
\* and a longitude; when the geocoder has no result for an otherwise
\* acceptable POST /reviews, the answer is 400, nothing is handed to the
\* media host and nothing is written.
C3_CoordinatesOrNoWrite ==
    [][ /\ \A i \in 1..Len(db') : HasCoordinates(db'[i])
        /\ \A p \in pending' : HasCoordinates(p.doc)
        /\ \A c \in Clients :
             LET Then(rating, files, georesp, outcomes) ==
                   (ValidSession(session[c], now)
                      /\ rating \in MinRating..MaxRating)
                   => /\ resp'.status = 400
                      /\ resp'.calls.uploaded = <<>>
                      /\ UNCHANGED <<db, pending>>
             IN  CreateSteps(c, Ratings, {NoResult}, PhotoForms, Then)
      ]_vars

\* after a review was persisted, a form was refused for want of coordinates
C3_Witness ==
    /\ resp.op = "create" /\ resp.status = 400
    /\ resp.calls.geo = "no result"
    /\ Len(db) > 0

---------------------------------------------------------------------------
(* C4 *)

\* C4: a rating below 0 or above 5 sent with a valid session is answered
\* 400 before the geocoder or the media host is called and before anything
\* is written; every review persisted or handed to the database has a
\* rating from 0 to 5.
C4_RatingInRange ==
    [][ /\ \A i \in 1..Len(db') : db'[i].rating \in 0..5
        /\ \A p \in pending' : p.doc.rating \in 0..5
        /\ \A c \in Clients :
             LET Then(rating, files, georesp, outcomes) ==
                   (ValidSession(session[c], now) /\ (rating < 0 \/ rating > 5))
                   => /\ resp'.status = 400
                      /\ resp'.calls.geo = "not asked"
                      /\ resp'.calls.uploaded = <<>>
                      /\ UNCHANGED <<db, pending>>
             IN  CreateSteps(c, Ratings, GeoResponses, PhotoForms, Then)
      ]_vars

\* a rating was refused although the session is valid, and reviews with
\* both limits of the range are persisted
C4_Witness ==
    /\ resp.op = "create" /\ resp.status = 400
    /\ resp.calls.geo = "not asked"
    /\ ValidSession(session[resp.client], now)
    /\ \E i, j \in 1..Len(db) : db[i].rating = 0 /\ db[j].rating = 5

---------------------------------------------------------------------------
(* C8 *)

\* C8: the collection changes only by gaining one record at its end, in
\* the step that answers a POST /reviews with 303 and names that record;
\* every 303 of POST /reviews comes with exactly one new record; no other
\* step, whatever it answers, changes the collection.
C8_CollectionOnlyGrows ==
    [][ /\ db' # db =>
             /\ Len(db') = Len(db) + 1
             /\ SubSeq(db', 1, Len(db)) = db
             /\ resp'.op = "create" /\ resp'.status = 303
             /\ resp'.id = Some(db'[Len(db')]._id)
        /\ (resp' # resp /\ resp'.op = "create" /\ resp'.status = 303)
             => Len(db') = Len(db) + 1
        /\ (resp' # resp /\ ~(resp'.op = "create" /\ resp'.status = 303))
             => db' = db
      ]_vars

\* two reviews are persisted and the last POST /reviews was refused
C8_Witness ==
    /\ Len(db) = 2
    /\ resp.op = "create" /\ resp.status \in {400, 401, 500}

---------------------------------------------------------------------------
(* C6 *)

\* an identifier text of the right length made of hex digits
WellFormed(text) ==
    Len(text) = OidLen /\ \A i \in 1..Len(text) : text[i] \in {"a", "b", "A", "B"}

\* the persisted reviews the text names (hex digits compare without case)
Named(text) ==
    { i \in 1..Len(db) :
        /\ Len(db[i]._id) = Len(text)
        /\ \A k \in 1..Len(text) : Lower(text[k]) = db[i]._id[k] }

---------------------------------------------------------------------------
(* C5 *)

\* place of a listed review in the collection's insertion order
InsertedAs(review) ==
    CHOOSE k \in 1..Len(db) : OidStr(db[k]._id) = review.id

\* C5: the list view shows the reviews in the reverse of the order in which
\* they were inserted, however the POST /reviews requests overlap.
C5_ListReversesInsertion ==
    (resp.op = "list" /\ resp.status = 200) =>
      \A i, j \in 1..Len(resp.reviews) :
        i < j => InsertedAs(resp.reviews[i]) > InsertedAs(resp.reviews[j])

---------------------------------------------------------------------------
(* C7 *)

\* what the specification accepts: a file with content and a name
Accepted(file) == file # None /\ file[1].filename # "" /\ file[1].size > 0

RECURSIVE AcceptedUrls(_)
AcceptedUrls(files) ==
    IF files = <<>> THEN <<>>
    ELSE IF Accepted(Head(files))
    THEN <<SecureUrl(Head(files)[1])>> \o AcceptedUrls(Tail(files))
    ELSE AcceptedUrls(Tail(files))

\* C7: upload_images hands to the media host only files with content and a
\* name and, when the host answers each with a URL, returns the URLs of
\* exactly those files in the order given; an absent or empty list yields
\* the empty sequence.
C7_SkipsEmptyAndNameless ==
    [][ \A c \in Clients :
          LET Then(rating, files, georesp, outcomes) ==
                LET up == upload_images(files, outcomes)
                IN  /\ \A k \in 1..Len(up.uploaded) :
                         Accepted(Some(up.uploaded[k]))
                    /\ (files = None \/ files = Some(<<>>)) => up.urls = <<>>
                    /\ (files # None /\ ~up.raised
                          /\ \A k \in 1..Len(outcomes) : outcomes[k] = "url")
                       => up.urls = AcceptedUrls(files[1])
          IN  ValidSession(session[c], now)
                => CreateSteps(c, {MaxRating}, {GeoHit}, FileLists, Then)
      ]_vars

====
